---- MODULE Spec2Model ----
(***************************************************************************)
(* prism-neo: the chat-bot command layer of src/src/index.ts.              *)
(*                                                                         *)
(* The state is the process-wide map kv (user id -> time of the pending    *)
(* logout preview), the wall clock read by Date.now(), and one record per  *)
(* command invocation holding the handler's locals and its position (the   *)
(* await it is suspended at).  Every await of the source is a boundary     *)
(* between two actions; the code between two awaits is one action.         *)
(*                                                                         *)
(* Specifications: Spec (all fifteen commands), SpecLogout (interleaved    *)
(* logouts of one user), SpecSeq (logouts one after another, every call    *)
(* resolving), SpecBilling (formatBilling on its inputs) and SpecWallet    *)
(* (the wallet report on its inputs).                                      *)
(***************************************************************************)
EXTENDS Integers, Sequences, FiniteSets, Bags, TLC

\* ---------------------------------------------------------------- bounds
\* How many logout invocations one run of the logout machine holds.
MaxInv == 3

\* How many command invocations one run of the whole command surface holds.
MaxCmds == 2

\* The largest cost (total, discounted, overwritten) of a billing response.
MaxCost == 2

\* The longest segment list of a billing response.
MaxSegs == 2

\* The longest list of available free assets of a wallet.
MaxAssets == 3

\* The latest expiry of a free asset.
MaxExpiry == 3

\* The user ids that occur (session.userId, or the id part of platform:id).
Users == {1, 2}

\* 60 * 1000 of handleLogoutCmd: the confirmation window in ms.
TTL == 60 * 1000

\* How far Date.now() has moved on when a handler reads it, in ms: at once,
\* just inside the window, exactly the window.
NowSteps == {1, TTL - 1, TTL}

\* The same for the whole command surface, without the smallest step.
CoarseSteps == {TTL - 1, TTL}

\* ---------------------------------------------------------------- state
VARIABLES
    kv,        \* index.ts:8  Map<string, number>: a function on the keys it holds
    clock,     \* the last value Date.now() returned
    flight,    \* the command invocations: a bag of records, each the position
               \* and the locals of one handler (and, of a logout that has
               \* returned, what it did to the store)
    started,   \* how many invocations have begun
    out,       \* the reply the step just taken handed to the dispatch framework
    bres,      \* a BillingResponse handed to formatBilling
    blines,    \* what formatBilling made of bres
    wres,      \* a Wallet handed to the wallet report
    wlines     \* the report made of wres

vars == <<kv, clock, flight, started, out, bres, blines, wres, wlines>>

\* ------------------------------------------------- formatting utilities
\* A rendered line of a reply: what it says (tag) and the numbers in it.
Line(tag, a, b) == [tag |-> tag, a |-> a, b |-> b]

\* A null / absent date (JSON null): `!dateStr` of formatDateTime is true of it.
NullDate == 0

\* index.ts:45 formatDateTime: "never expires" for a falsy date, else the
\* date's components; `at` stands for the rendered Y/M/D h:m:s of the date.
formatDateTime(dateStr) ==
    IF dateStr = NullDate
        THEN [never |-> TRUE, at |-> 0]
        ELSE [never |-> FALSE, at |-> dateStr]

DateLine(tag, dateStr) ==
    LET f == formatDateTime(dateStr)
    IN  Line(tag, f.at, IF f.never THEN 1 ELSE 0)

\* JavaScript truthiness of an optional number field: present and not 0.
Truthy(rec, field) == field \in DOMAIN rec /\ rec[field] # 0

\* `res.discount ? ... : ...`: an object is truthy whenever it is present.
HasDiscount(res) == "discount" \in DOMAIN res

\* index.ts:67
OriginalCost(res) ==
    IF HasDiscount(res) THEN res.discount.originalCost ELSE res.billing.totalCost

\* index.ts:68-71: let finalCost = discount ? discount.finalCost : totalCost;
\* if (res.session.costOverwrite) finalCost = res.session.costOverwrite
FinalCost(res) ==
    LET finalCost == IF HasDiscount(res) THEN res.discount.finalCost
                                         ELSE res.billing.totalCost
    IN  IF Truthy(res.session, "costOverwrite")
            THEN res.session.costOverwrite
            ELSE finalCost

\* index.ts:75-79: one line per applied discount log.
RECURSIVE AppliedLogLines(_)
AppliedLogLines(logs) ==
    IF logs = <<>> THEN <<>>
    ELSE <<Line("discountLog", Head(logs).asset, Head(logs).saved)>>
             \o AppliedLogLines(Tail(logs))

\* A faulty variant of the test of index.ts:95: free segments are dropped too.
SegmentShownPositive(seg) == seg.cost > 0

\* index.ts:95: the test that decides whether a segment is rendered.
SegmentShown(seg) == seg.cost >= 0

\* index.ts:96-114: the three lines of one segment.  Whether start and end
\* fall on the same local day (toLocaleDateString) is a field of the input.
SegmentLines(seg) ==
    << Line("segRule", seg.ruleName, 0),
       Line(IF seg.sameDay THEN "segTime" ELSE "segDateTime", seg.startTime, seg.endTime),
       Line("segCost", seg.cost, IF seg.isCapped THEN 1 ELSE 0) >>

\* index.ts:94-116: segments.forEach, in list order.
RECURSIVE ForEachSegment(_)
ForEachSegment(segs) ==
    IF segs = <<>> THEN <<>>
    ELSE (IF SegmentShown(Head(segs)) THEN SegmentLines(Head(segs)) ELSE <<>>)
             \o ForEachSegment(Tail(segs))

\* index.ts:121-126: res.wallet.passes?.details?.available?.[0]
MonthlyPassLines(res) ==
    LET avail == res.wallet.passes
    IN  IF Len(avail) > 0 /\ avail[1].expireAt # NullDate
            THEN <<Line("sep", 0, 0), DateLine("passExpiry", avail[1].expireAt)>>
            ELSE <<>>

\* index.ts:57-129 formatBilling
formatBilling(res) ==
    LET finalCost      == FinalCost(res)
        currentBalance == res.wallet.total.available
        finalBalance   == currentBalance - finalCost
    IN  << Line("billHeader", 0, 0),
           DateLine("entered", res.session.createdAt),
           DateLine("settled", res.billing.endTime),
           Line("sep", 0, 0),
           Line("originalCost", OriginalCost(res), 0) >>
        \o (IF HasDiscount(res) /\ Len(res.discount.appliedLogs) > 0
                THEN AppliedLogLines(res.discount.appliedLogs) ELSE <<>>)
        \o << Line("finalCost", finalCost, 0),
              Line("sep", 0, 0),
              Line("currentBalance", currentBalance, 0),
              Line("finalBalance", finalBalance, 0),
              Line("sep", 0, 0),
              Line("segHeader", 0, 0) >>
        \o (IF Len(res.billing.segments) > 0
                THEN ForEachSegment(res.billing.segments)
                ELSE <<Line("segNone", 0, 0)>>)
        \o MonthlyPassLines(res)

\* ------------------------------------------------ wallet / assets report
\* index.ts:230: res.free.details?.available?.filter(asset => asset.expireAt) || []
RECURSIVE FilterExpiring(_)
FilterExpiring(assets) ==
    IF assets = <<>> THEN <<>>
    ELSE (IF Head(assets).expireAt # NullDate THEN <<Head(assets)>> ELSE <<>>)
             \o FilterExpiring(Tail(assets))

ExpiringFreeAssets(res) ==
    IF "details" \in DOMAIN res.free
        THEN FilterExpiring(res.free.details.available)
        ELSE <<>>

\* index.ts:232: the comparator of the sort,
\* new Date(a.expireAt).getTime() - new Date(b.expireAt).getTime()
CompareExpiry(a, b) == a.expireAt - b.expireAt

\* A faulty variant of the sort: an unstable one, which lets an element pass
\* the elements that compare equal to it.
RECURSIVE InsertSortedUnstable(_, _)
InsertSortedUnstable(x, sorted) ==
    IF sorted = <<>> THEN <<x>>
    ELSE IF CompareExpiry(x, Head(sorted)) <= 0
        THEN <<x>> \o sorted
        ELSE <<Head(sorted)>> \o InsertSortedUnstable(x, Tail(sorted))

\* Array.prototype.sort is stable (ECMAScript 2019): an element goes behind
\* every element that does not compare greater than it.
RECURSIVE InsertSorted(_, _)
InsertSorted(x, sorted) ==
    IF sorted = <<>> THEN <<x>>
    ELSE IF CompareExpiry(x, Head(sorted)) < 0
        THEN <<x>> \o sorted
        ELSE <<Head(sorted)>> \o InsertSorted(x, Tail(sorted))

RECURSIVE SortByExpiry(_)
SortByExpiry(assets) ==
    IF assets = <<>> THEN <<>>
    ELSE InsertSorted(assets[Len(assets)],
                      SortByExpiry(SubSeq(assets, 1, Len(assets) - 1)))

\* index.ts:230-235: the "expiring soon" note.
ExpiringNote(res) ==
    LET expiringFreeAssets == ExpiringFreeAssets(res)
    IN  IF Len(expiringFreeAssets) > 0
            THEN LET soonestToExpire == SortByExpiry(expiringFreeAssets)[1]
                 IN  <<Line("expiringSoon", soonestToExpire.count,
                            formatDateTime(soonestToExpire.expireAt).at)>>
            ELSE <<>>

\* index.ts:241-244 and 251-254
RECURSIVE PassLines(_)
PassLines(passes) ==
    IF passes = <<>> THEN <<>>
    ELSE <<Line("passName", Head(passes).name, 0), DateLine("passExpire", Head(passes).expireAt)>>
             \o PassLines(Tail(passes))

RECURSIVE TicketLines(_)
TicketLines(tickets) ==
    IF tickets = <<>> THEN <<>>
    ELSE <<Line("ticketName", Head(tickets).name, Head(tickets).count),
           DateLine("ticketExpire", Head(tickets).expireAt)>>
             \o TicketLines(Tail(tickets))

\* index.ts:215-257: the report of handleWalletCmd; targetUserId is 0 when
\* the command names no user.
WalletReport(res, targetUserId) ==
    LET unavailable == res.total.all - res.total.available
    IN  << Line(IF targetUserId # 0 THEN "walletHeaderFor" ELSE "walletHeader", targetUserId, 0),
           Line("available", res.total.available, res.total.all),
           Line("paid", res.paid.available, 0),
           Line("free", res.free.available, 0) >>
        \o (IF unavailable > 0 THEN <<Line("locked", unavailable, 0)>> ELSE <<>>)
        \o ExpiringNote(res)
        \o (IF Len(res.passes) > 0
                THEN <<Line("passesHeader", Len(res.passes), 0)>> \o PassLines(res.passes)
                ELSE <<>>)
        \o (IF Len(res.tickets) > 0
                THEN <<Line("ticketsHeader", Len(res.tickets), 0)>> \o TicketLines(res.tickets)
                ELSE <<>>)

\* ------------------------------------------------------- reply texts
MsgPermDenied == "insufficient privilege"
MsgNeedAmount == "please enter an amount"
MsgNeedAlias  == "please enter a device name"
MsgNeedCode   == "please enter a redeem code"
MsgGeneric    == "operation failed, unknown error"

\* What a rejected remote call (or any throw inside a handler) carries: an
\* ApiError has response.data.message; other errors lack part of the path.
ApiErrors ==
    { [name |-> "Error"],
      [response |-> [status |-> 500]],
      [response |-> [data |-> [code |-> 1]]],
      [response |-> [data |-> [message |-> ""]]],
      [response |-> [data |-> [message |-> "api: no open session"]]] }

\* The errors the remote calls of the command machine reject with.
RemoteErrors ==
    { [name |-> "Error"],
      [response |-> [data |-> [message |-> "api: no open session"]]] }

NoError == [none |-> TRUE]

\* argv.session?.messageId: 0 when the invoking message has none.
MessageIds == {0, 7}

\* A faulty variant of the chain of index.ts:28: e?.response?.message, one
\* level short.
ApiMessageShallow(e) ==
    IF /\ "response" \in DOMAIN e
       /\ "message" \in DOMAIN e.response
        THEN e.response.message
        ELSE ""

\* index.ts:28  (e as Partial<ApiError>)?.response?.data?.message, "" when
\* the chain ends in undefined (both are falsy in the test of line 29).
ApiMessage(e) ==
    IF /\ "response" \in DOMAIN e
       /\ "data" \in DOMAIN e.response
       /\ "message" \in DOMAIN e.response.data
        THEN e.response.data.message
        ELSE ""

\* index.ts:25-33: the catch block's choice of message.
CatchMessage(e) ==
    LET apiMessage == ApiMessage(e)
    IN  IF apiMessage # "" THEN <<Line(apiMessage, 0, 0)>>
                           ELSE <<Line(MsgGeneric, 0, 0)>>

\* index.ts:20-40 handleAction: result is what the awaited action did, either
\* [ok |-> TRUE, message |-> lines] or [ok |-> FALSE, e |-> the thrown error].
handleAction(result, messageId) ==
    LET message == IF result.ok THEN result.message ELSE CatchMessage(result.e)
    IN  IF messageId # 0
            THEN <<Line("quote", messageId, 0)>> \o message
            ELSE message

Returned(message) == [ok |-> TRUE, message |-> message]
Threw(e) == [ok |-> FALSE, e |-> e]

\* ------------------------------------------------------- invocations
\* The locals of a handler that has just been called.
Called(cmd) ==
    [ pc       |-> "resolve", \* resolve, call, call2, done
      cmd      |-> cmd,
      explicit |-> FALSE,     \* the command named a user (`user` is truthy)
      target   |-> 0,         \* the userId getTargetUserId yields
      now      |-> 0,         \* handleLogoutCmd's `now`
      branch   |-> "none",    \* handleLogoutCmd: confirm / preview; show: one / all
      pendingLogout |-> 0,    \* handleLogoutCmd's kv.get(targetUserId); 0: undefined
      ver      |-> 0,         \* history: store operations on the key before kv.get
      calls    |-> 0,         \* remote API requests this invocation issued
      kvOps    |-> 0 ]        \* kv.set / kv.delete this invocation ran

InFlight == BagToSet(flight)
Put(b, r)  == b (+) SetToBag({r})
Take(b, r) == b (-) SetToBag({r})

\* History operators: counts over what the logout invocations have done so far.
LogoutCalls(u) ==
    LET S == {r \in InFlight : r.cmd = "logout" /\ r.target = u /\ r.branch = "confirm"}
    IN  BagCardinality([r \in S |-> flight[r]])

PreviewsDone(u) ==
    LET S == {r \in InFlight : r.cmd = "logout" /\ r.target = u /\ r.branch = "preview"
                                 /\ r.kvOps > 0}
    IN  BagCardinality([r \in S |-> flight[r]])

StoreOps(u) == LogoutCalls(u) + PreviewsDone(u)

\* Map operations of index.ts:8.
KvGet(m, u) == IF u \in DOMAIN m THEN m[u] ELSE 0
KvSet(m, u, v) == [x \in DOMAIN m \cup {u} |-> IF x = u THEN v ELSE m[x]]
KvDelete(m, u) == [x \in DOMAIN m \ {u} |-> m[x]]

NoReply ==
    [cmd |-> "none", target |-> 0, branch |-> "none", now |-> 0, pendingLogout |-> 0,
     reply |-> <<>>, err |-> NoError, calls |-> 0, kvOps |-> 0, local |-> "none"]

\* What stays of an invocation once its handler has returned: of a logout
\* that reached the store, what it saw and did there; of the others nothing.
Retire(b, r) ==
    IF r.cmd = "logout" /\ r.branch # "none"
        THEN Put(b, [r EXCEPT !.pc = "done", !.explicit = FALSE, !.calls = 0])
        ELSE b

\* The wrapper of index.ts:20-40 around a handler that returns or throws, r
\* being the handler's locals before the step and r2 at its end: the reply
\* goes to the dispatch framework and the invocation is over.
Return(r, r2, result, messageId, local) ==
    /\ out' = [cmd |-> r2.cmd, target |-> r2.target, branch |-> r2.branch,
               now |-> r2.now, pendingLogout |-> r2.pendingLogout,
               reply |-> handleAction(result, messageId),
               err |-> IF result.ok THEN NoError ELSE result.e,
               calls |-> r2.calls, kvOps |-> r2.kvOps, local |-> local]
    /\ flight' = Retire(Take(flight, r), r2)

\* The invocation issues one remote API request and suspends on it.
Await(r, r2, pc) ==
    /\ flight' = Put(Take(flight, r), [r2 EXCEPT !.pc = pc, !.calls = @ + 1])
    /\ out' = NoReply

Pure == <<bres, blines, wres, wlines>>

\* The user id a reply names: the target when the command named a user.
Named(r) == IF r.explicit THEN r.target ELSE 0

\* ----------------------------------------------- remote API responses
\* Sample responses of the remote service; every field a handler reads.
BillingSamples ==
    { [ session  |-> [createdAt |-> 5],
        billing  |-> [endTime |-> 9, totalCost |-> 3,
                      segments |-> << [ruleName |-> 1, startTime |-> 5, endTime |-> 9,
                                       sameDay |-> TRUE, cost |-> 3, isCapped |-> FALSE] >>],
        wallet   |-> [total |-> [available |-> 10], passes |-> <<>>] ],
      [ session  |-> [createdAt |-> 5, costOverwrite |-> 1],
        billing  |-> [endTime |-> 9, totalCost |-> 3, segments |-> <<>>],
        discount |-> [originalCost |-> 3, finalCost |-> 2,
                      appliedLogs |-> << [asset |-> 1, saved |-> 1] >>],
        wallet   |-> [total |-> [available |-> 10],
                      passes |-> << [name |-> 1, expireAt |-> 20] >>] ] }

LogoutSamples ==
    { [session |-> [createdAt |-> 5, closedAt |-> 9, finalCost |-> 3]] }

WalletSamples ==
    { [ total |-> [available |-> 4, all |-> 6], paid |-> [available |-> 1],
        free |-> [available |-> 3,
                  details |-> [available |-> << [count |-> 2, expireAt |-> 30],
                                                [count |-> 1, expireAt |-> 20] >>]],
        passes |-> << [name |-> 1, expireAt |-> 20] >>,
        tickets |-> << [name |-> 2, count |-> 1, expireAt |-> NullDate] >> ],
      [ total |-> [available |-> 4, all |-> 4], paid |-> [available |-> 4],
        free |-> [available |-> 0], passes |-> <<>>, tickets |-> <<>> ] }

\* GET /users/logined: per user the QQ bind (0: none) and the session start.
ListSamples == { <<>>, << [qq |-> 1, createdAt |-> 5], [qq |-> 0, createdAt |-> 6] >> }

\* GET /users/QQ:{id}/assets
AssetSamples == { <<>>, << [name |-> 1, count |-> 2, expireAt |-> NullDate],
                          [name |-> 2, count |-> 1, expireAt |-> 20] >> }

\* POST /users/QQ:{id}/redeem: the granted items.
RedeemSamples ==
    { <<>>,
      << [name |-> 1, count |-> 1, assetType |-> "PASS", durationMs |-> 172800000],
         [name |-> 2, count |-> 1, assetType |-> "PASS", durationMs |-> 3600000],
         [name |-> 3, count |-> 3, assetType |-> "TICKET", durationMs |-> 0] >> }

\* GET /machine/power
MachineSamples == { << [machine |-> 1, state |-> 1], [machine |-> 2, state |-> 0] >> }

\* ------------------------------------------------------- the handlers
\* index.ts:395-407 createAction, and the synchronous start of a handler that
\* begins with `await getTargetUserId(context, user)` (index.ts:133-141):
\* user is 0 when the command names none; the handler suspends either on the
\* permission check or on the already settled promise.
Invoke(cmd, user, caller) ==
    /\ started' = started + 1
    /\ flight' = Put(flight, [Called(cmd) EXCEPT
                                 !.explicit = (user # 0),
                                 !.target = IF user # 0 THEN user ELSE caller])
    /\ out' = NoReply
    /\ UNCHANGED <<kv, clock, Pure>>

\* getTargetUserId has returned a userId to the handler of cmd.
Resolved(r, cmd) == r \in InFlight /\ r.pc = "resolve" /\ r.cmd = cmd

\* index.ts:135-137: the permission check says no; the handler returns the error.
getTargetUserId_Denied(r, messageId) ==
    /\ r \in InFlight /\ r.pc = "resolve" /\ r.explicit
    /\ Return(r, r, Returned(<<Line(MsgPermDenied, 0, 0)>>), messageId, "perm")
    /\ UNCHANGED <<kv, clock, started, Pure>>

\* index.ts:135: ctx.permissions.check rejects; handleAction catches it.
getTargetUserId_Throws(r, e, messageId) ==
    /\ r \in InFlight /\ r.pc = "resolve" /\ r.explicit
    /\ Return(r, r, Threw(e), messageId, "threw")
    /\ UNCHANGED <<kv, clock, started, Pure>>

\* A faulty variant of the test of index.ts:171: `pendingLogout &&` left out.
PendingConfirmsUnguarded(pendingLogout, now) == now - pendingLogout < TTL

\* A faulty variant of the test of index.ts:171: the window taken inclusively.
PendingConfirmsInclusive(pendingLogout, now) ==
    /\ pendingLogout # 0
    /\ now - pendingLogout <= TTL

\* index.ts:171: if (pendingLogout && (now - pendingLogout < 60 * 1000))
PendingConfirms(pendingLogout, now) ==
    /\ pendingLogout # 0
    /\ now - pendingLogout < TTL

\* A faulty variant of index.ts:173: the kv.delete left out.
ConfirmStoreKeeps(m, u) == m

\* index.ts:173: what the confirmation step does to the store.
ConfirmStore(m, u) == KvDelete(m, u)

\* Faulty variants of index.ts:186: the kv.set left out; the time taken from
\* the clock after the await instead of `now`; the map replaced by a new one.
PreviewStoreSkips(m, u, now) == m

PreviewStoreLate(m, u, now) == KvSet(m, u, clock)

PreviewStoreFresh(m, u, now) == KvSet(<<>>, u, now)

\* index.ts:186: what a rendered preview does to the store.
PreviewStore(m, u, now) == KvSet(m, u, now)

\* index.ts:164-174 and 184: from the return of getTargetUserId to the await of
\* the remote call; d is how far Date.now() has moved since it was last read.
handleLogoutCmd(r, d) ==
    /\ Resolved(r, "logout")
    /\ LET targetUserId  == r.target
           pendingLogout == KvGet(kv, targetUserId)
           now           == clock + d
           seen == [r EXCEPT !.pendingLogout = pendingLogout, !.now = now,
                             !.ver = StoreOps(targetUserId)]
       IN  /\ clock' = now
           /\ IF PendingConfirms(pendingLogout, now)
                 THEN /\ kv' = ConfirmStore(kv, targetUserId)
                      /\ Await(r, [seen EXCEPT !.branch = "confirm", !.kvOps = @ + 1], "call")
                 ELSE /\ kv' = kv
                      /\ Await(r, [seen EXCEPT !.branch = "preview"], "call")
    /\ UNCHANGED <<started, Pure>>

\* index.ts:174-181: service.logout resolved; the receipt.
handleLogoutCmd_Receipt(r, res, messageId) ==
    /\ r \in InFlight /\ r.pc = "call" /\ r.cmd = "logout" /\ r.branch = "confirm"
    /\ Return(r, r,
              Returned(<< Line("logoutOk", Named(r), 0),
                          DateLine("entered", res.session.createdAt),
                          DateLine("left", res.session.closedAt),
                          Line("charged", res.session.finalCost, 0) >>),
              messageId, "none")
    /\ UNCHANGED <<kv, clock, started, Pure>>

\* index.ts:184-190: service.billing resolved; the preview is rendered and the
\* pending entry written with the `now` read before the await.
handleLogoutCmd_Preview(r, billingRes, messageId) ==
    /\ r \in InFlight /\ r.pc = "call" /\ r.cmd = "logout" /\ r.branch = "preview"
    /\ LET targetUserId   == r.target
           billingMessage == formatBilling(billingRes)
       IN  /\ kv' = PreviewStore(kv, targetUserId, r.now)
           /\ Return(r, [r EXCEPT !.kvOps = @ + 1],
                     Returned(IF r.explicit
                         THEN <<Line("previewFor", targetUserId, 0)>> \o billingMessage
                                  \o <<Line("confirmPromptFor", targetUserId, 0)>>
                         ELSE billingMessage \o <<Line("confirmPrompt", 0, 0)>>),
                     messageId, "none")
    /\ UNCHANGED <<clock, started, Pure>>

\* A remote API request rejects (index.ts:24 throws out of the await); the
\* wrapper's catch block makes the reply.  Nothing after the await runs.
RemoteRejects(r, e, messageId) ==
    /\ r \in InFlight /\ r.pc \in {"call", "call2"}
    /\ Return(r, r, Threw(e), messageId, "none")
    /\ UNCHANGED <<kv, clock, started, Pure>>

\* A handler that makes one remote call right after getTargetUserId
\* (index.ts:147, 155, 214, 264, 285): the request is issued.
CallAfterResolve(r, cmd) ==
    /\ Resolved(r, cmd)
    /\ Await(r, r, "call")
    /\ UNCHANGED <<kv, clock, started, Pure>>

\* The awaited request of the handler of cmd resolved and the handler
\* returns message.
ReplyAfterCall(r, cmd, pc, message, messageId) ==
    /\ r \in InFlight /\ r.pc = pc /\ r.cmd = cmd
    /\ Return(r, r, Returned(message), messageId, "none")
    /\ UNCHANGED <<kv, clock, started, Pure>>

\* A handler that does not call getTargetUserId starts with its request.
CallAtOnce(cmd, caller, branch) ==
    /\ started' = started + 1
    /\ flight' = Put(flight, [Called(cmd) EXCEPT !.pc = "call", !.target = caller,
                                                 !.branch = branch, !.calls = 1])
    /\ out' = NoReply
    /\ UNCHANGED <<kv, clock, Pure>>

\* A handler returns a prompt before anything else (index.ts:305, 311).
RejectAtOnce(cmd, message, messageId, local) ==
    /\ started' = started + 1
    /\ out' = [NoReply EXCEPT !.cmd = cmd,
                              !.reply = handleAction(Returned(message), messageId),
                              !.local = local]
    /\ UNCHANGED <<kv, clock, flight, Pure>>

\* index.ts:143-149
handleRegisterCmd(r) == CallAfterResolve(r, "register")

handleRegisterCmd_Ok(r, messageId) ==
    ReplyAfterCall(r, "register", "call", <<Line("registerOk", Named(r), 0)>>, messageId)

\* index.ts:151-155
handleLoginCmd(r) == CallAfterResolve(r, "login")

\* index.ts:155-156: service.login resolved, service.getLock is requested.
handleLoginCmd_GetLock(r) ==
    /\ r \in InFlight /\ r.pc = "call" /\ r.cmd = "login"
    /\ Await(r, r, "call2")
    /\ UNCHANGED <<kv, clock, started, Pure>>

\* index.ts:158-161
handleLoginCmd_Ok(r, password, messageId) ==
    ReplyAfterCall(r, "login", "call2", <<Line("loginOk", Named(r), password)>>, messageId)

\* index.ts:194-208
ListReport(users) ==
    IF Len(users) = 0 THEN <<Line("listEmpty", 0, 0)>>
    ELSE <<Line("listCount", Len(users), 0)>>
             \o [k \in 1 .. Len(users) |-> Line("player", users[k].qq,
                                                formatDateTime(users[k].createdAt).at)]

handleListCmd == CallAtOnce("list", 0, "none")

handleListCmd_Ok(r, users, messageId) ==
    ReplyAfterCall(r, "list", "call", ListReport(users), messageId)

\* index.ts:210-258
handleWalletCmd(r) == CallAfterResolve(r, "wallet")

handleWalletCmd_Ok(r, res, messageId) ==
    ReplyAfterCall(r, "wallet", "call", WalletReport(res, Named(r)), messageId)

\* index.ts:260-270
handleBillingCmd(r) == CallAfterResolve(r, "billing")

handleBillingCmd_Ok(r, res, messageId) ==
    ReplyAfterCall(r, "billing", "call",
                   IF r.explicit THEN <<Line("billingFor", r.target, 0)>> \o formatBilling(res)
                                 ELSE formatBilling(res),
                   messageId)

\* index.ts:272-279
handleLockCmd(caller) == CallAtOnce("lock", caller, "none")

handleLockCmd_Ok(r, password, messageId) ==
    ReplyAfterCall(r, "lock", "call", <<Line("lockOk", password, 0)>>, messageId)

\* index.ts:281-302
RECURSIVE ItemLines(_)
ItemLines(userAssets) ==
    IF userAssets = <<>> THEN <<>>
    ELSE <<Line("item", Head(userAssets).name, Head(userAssets).count)>>
             \o (IF Head(userAssets).expireAt # NullDate
                     THEN <<DateLine("itemExpire", Head(userAssets).expireAt)>> ELSE <<>>)
             \o ItemLines(Tail(userAssets))

handleItemsCmd(r) == CallAfterResolve(r, "items")

handleItemsCmd_Ok(r, userAssets, messageId) ==
    ReplyAfterCall(r, "items", "call",
                   IF Len(userAssets) = 0
                       THEN <<Line(IF r.explicit THEN "itemsNoneFor" ELSE "itemsNone",
                                   Named(r), 0)>>
                       ELSE <<Line(IF r.explicit THEN "itemsHeaderFor" ELSE "itemsHeader",
                                   Named(r), 0)>> \o ItemLines(userAssets),
                   messageId)

\* index.ts:304-314: alias is 0 when the command gives none.
handleMachineOn(alias, caller, messageId) ==
    IF alias = 0
        THEN RejectAtOnce("on", <<Line(MsgNeedAlias, 0, 0)>>, messageId, "alias")
        ELSE CallAtOnce("on", caller, "none")

handleMachineOn_Ok(r, machine, messageId) ==
    ReplyAfterCall(r, "on", "call", <<Line("machineOn", machine, 0)>>, messageId)

handleMachineOff(alias, caller, messageId) ==
    IF alias = 0
        THEN RejectAtOnce("off", <<Line(MsgNeedAlias, 0, 0)>>, messageId, "alias")
        ELSE CallAtOnce("off", caller, "none")

handleMachineOff_Ok(r, machine, messageId) ==
    ReplyAfterCall(r, "off", "call", <<Line("machineOff", machine, 0)>>, messageId)

\* index.ts:316-328
handleMachineShow(alias) ==
    CallAtOnce("show", 0, IF alias # 0 THEN "one" ELSE "all")

handleMachineShow_Ok(r, res, messageId) ==
    ReplyAfterCall(r, "show", "call",
                   IF r.branch = "one"
                       THEN <<Line("machine", res[1].machine, res[1].state)>>
                       ELSE [k \in 1 .. Len(res) |-> Line("machine", res[k].machine, res[k].state)],
                   messageId)

\* A faulty variant of index.ts:330-363: the request issued before the amount
\* is looked at.
AmountCmdLate(r, cmd, amountGiven, messageId) ==
    /\ Resolved(r, cmd)
    /\ IF ~amountGiven
          THEN Return(r, [r EXCEPT !.calls = @ + 1],
                      Returned(<<Line(MsgNeedAmount, 0, 0)>>), messageId, "amount")
          ELSE Await(r, r, "call")
    /\ UNCHANGED <<kv, clock, started, Pure>>

\* index.ts:330-363: add, del and overwrite: after getTargetUserId the amount
\* is required (`!amount`), then the request is issued.
AmountCmd(r, cmd, amountGiven, messageId) ==
    /\ Resolved(r, cmd)
    /\ IF ~amountGiven
          THEN Return(r, r, Returned(<<Line(MsgNeedAmount, 0, 0)>>), messageId, "amount")
          ELSE Await(r, r, "call")
    /\ UNCHANGED <<kv, clock, started, Pure>>

handleWalletAdd(r, amountGiven, messageId) == AmountCmd(r, "add", amountGiven, messageId)

handleWalletAdd_Ok(r, res, messageId) ==
    ReplyAfterCall(r, "add", "call",
                   << Line("addOk", r.target, 0), Line("before", res.originalBalance, 0),
                      Line("after", res.finalBalance, 0) >>, messageId)

handleWalletDeduct(r, amountGiven, messageId) == AmountCmd(r, "del", amountGiven, messageId)

handleWalletDeduct_Ok(r, res, messageId) ==
    ReplyAfterCall(r, "del", "call",
                   << Line("delOk", r.target, 0), Line("before", res.originalBalance, 0),
                      Line("after", res.finalBalance, 0) >>, messageId)

handleCostOverwrite(r, amountGiven, messageId) ==
    AmountCmd(r, "overwrite", amountGiven, messageId)

handleCostOverwrite_Ok(r, messageId) ==
    ReplyAfterCall(r, "overwrite", "call", <<Line("overwriteOk", r.target, 0)>>, messageId)

\* index.ts:380-385: one granted item; days is Math.floor(durationMs / DayMs).
DayMs == 1000 * 60 * 60 * 24

RedeemLine(item) ==
    LET days == item.durationMs \div DayMs
    IN  Line("granted", item.count,
             IF item.assetType = "PASS" /\ item.durationMs # 0 /\ days > 0 THEN days ELSE 0)

\* index.ts:365-370: getTargetUserId(context, null), then the code is required.
handleRedeem(r, codeGiven, messageId) ==
    /\ Resolved(r, "redeem")
    /\ IF ~codeGiven
          THEN Return(r, r, Returned(<<Line(MsgNeedCode, 0, 0)>>), messageId, "code")
          ELSE Await(r, r, "call")
    /\ UNCHANGED <<kv, clock, started, Pure>>

\* index.ts:371-388
handleRedeem_Ok(r, items, messageId) ==
    ReplyAfterCall(r, "redeem", "call",
                   IF Len(items) = 0 THEN <<Line("redeemEmpty", 0, 0)>>
                   ELSE <<Line("redeemOk", 0, 0)>>
                            \o [k \in 1 .. Len(items) |-> RedeemLine(items[k])],
                   messageId)

\* ------------------------------------------------------ specifications
NoInput == [none |-> TRUE]

InitPure ==
    /\ bres = NoInput /\ blines = <<>>
    /\ wres = NoInput /\ wlines = <<>>

\* The state after apply(): an empty store, no invocation yet.
Init ==
    /\ kv = <<>>
    /\ clock = 0
    /\ flight = EmptyBag
    /\ started = 0
    /\ out = NoReply
    /\ InitPure

\* The user the logout machine is about.
RaceUsers == {1}

\* Logout invocations only, for one target user, any interleaving.
NextLogout ==
    \/ /\ started < MaxInv
       /\ \E user \in RaceUsers \cup {0}, caller \in RaceUsers :
              Invoke("logout", user, caller)
    \/ \E r \in InFlight : getTargetUserId_Denied(r, 0)
    \/ \E r \in InFlight, d \in NowSteps : handleLogoutCmd(r, d)
    \/ \E r \in InFlight, res \in LogoutSamples : handleLogoutCmd_Receipt(r, res, 0)
    \/ \E r \in InFlight, res \in BillingSamples : handleLogoutCmd_Preview(r, res, 0)
    \/ \E r \in InFlight, e \in RemoteErrors : RemoteRejects(r, e, 0)

SpecLogout == Init /\ [][NextLogout]_vars

\* The commands whose handler begins with getTargetUserId on the user argument.
UserCmds == {"register", "login", "logout", "wallet", "billing", "items",
             "add", "del", "overwrite"}

BalanceSamples == { [originalBalance |-> 4, finalBalance |-> 6] }

\* The handlers other than handleLogoutCmd neither read nor write kv or the
\* clock, so each of them is explored on its own, between the logouts; the
\* logouts interleave with one another freely.
OthersIdle == \A r \in InFlight : r.pc = "done"

LogoutsOnly == \A r \in InFlight : r.cmd = "logout"

\* The whole command surface (index.ts:408-424), any interleaving.
Next ==
    \/ /\ started < MaxCmds /\ LogoutsOnly
       /\ \E user \in Users \cup {0}, caller \in Users : Invoke("logout", user, caller)
    \/ /\ started < MaxCmds /\ OthersIdle
       /\ \E cmd \in UserCmds \ {"logout"}, user \in Users \cup {0}, caller \in Users :
              Invoke(cmd, user, caller)
    \/ /\ started < MaxCmds /\ OthersIdle
       /\ \E caller \in Users : Invoke("redeem", 0, caller)
    \/ started < MaxCmds /\ OthersIdle /\ handleListCmd
    \/ started < MaxCmds /\ OthersIdle /\ \E caller \in Users : handleLockCmd(caller)
    \/ /\ started < MaxCmds /\ OthersIdle
       /\ \E alias \in {0, 1}, caller \in Users, m \in MessageIds :
              handleMachineOn(alias, caller, m)
    \/ /\ started < MaxCmds /\ OthersIdle
       /\ \E alias \in {0, 1}, caller \in Users, m \in MessageIds :
              handleMachineOff(alias, caller, m)
    \/ started < MaxCmds /\ OthersIdle /\ \E alias \in {0, 1} : handleMachineShow(alias)
    \/ \E r \in InFlight, m \in MessageIds : getTargetUserId_Denied(r, m)
    \/ \E r \in InFlight, e \in RemoteErrors, m \in MessageIds : getTargetUserId_Throws(r, e, m)
    \/ \E r \in InFlight : handleRegisterCmd(r)
    \/ \E r \in InFlight, m \in MessageIds : handleRegisterCmd_Ok(r, m)
    \/ \E r \in InFlight : handleLoginCmd(r)
    \/ \E r \in InFlight : handleLoginCmd_GetLock(r)
    \/ \E r \in InFlight, m \in MessageIds : handleLoginCmd_Ok(r, 1234, m)
    \/ \E r \in InFlight, d \in CoarseSteps : handleLogoutCmd(r, d)
    \/ \E r \in InFlight, res \in LogoutSamples, m \in MessageIds :
           handleLogoutCmd_Receipt(r, res, m)
    \/ \E r \in InFlight, res \in BillingSamples, m \in MessageIds :
           handleLogoutCmd_Preview(r, res, m)
    \/ \E r \in InFlight, users \in ListSamples, m \in MessageIds :
           handleListCmd_Ok(r, users, m)
    \/ \E r \in InFlight : handleWalletCmd(r)
    \/ \E r \in InFlight, res \in WalletSamples, m \in MessageIds :
           handleWalletCmd_Ok(r, res, m)
    \/ \E r \in InFlight : handleBillingCmd(r)
    \/ \E r \in InFlight, res \in BillingSamples, m \in MessageIds :
           handleBillingCmd_Ok(r, res, m)
    \/ \E r \in InFlight, m \in MessageIds : handleLockCmd_Ok(r, 1234, m)
    \/ \E r \in InFlight : handleItemsCmd(r)
    \/ \E r \in InFlight, a \in AssetSamples, m \in MessageIds : handleItemsCmd_Ok(r, a, m)
    \/ \E r \in InFlight, m \in MessageIds : handleMachineOn_Ok(r, 1, m)
    \/ \E r \in InFlight, m \in MessageIds : handleMachineOff_Ok(r, 1, m)
    \/ \E r \in InFlight, res \in MachineSamples, m \in MessageIds :
           handleMachineShow_Ok(r, res, m)
    \/ \E r \in InFlight, g \in BOOLEAN, m \in MessageIds : handleWalletAdd(r, g, m)
    \/ \E r \in InFlight, res \in BalanceSamples, m \in MessageIds :
           handleWalletAdd_Ok(r, res, m)
    \/ \E r \in InFlight, g \in BOOLEAN, m \in MessageIds : handleWalletDeduct(r, g, m)
    \/ \E r \in InFlight, res \in BalanceSamples, m \in MessageIds :
           handleWalletDeduct_Ok(r, res, m)
    \/ \E r \in InFlight, g \in BOOLEAN, m \in MessageIds : handleCostOverwrite(r, g, m)
    \/ \E r \in InFlight, m \in MessageIds : handleCostOverwrite_Ok(r, m)
    \/ \E r \in InFlight, g \in BOOLEAN, m \in MessageIds : handleRedeem(r, g, m)
    \/ \E r \in InFlight, items \in RedeemSamples, m \in MessageIds :
           handleRedeem_Ok(r, items, m)
    \/ \E r \in InFlight, e \in ApiErrors, m \in MessageIds : RemoteRejects(r, e, m)

Spec == Init /\ [][Next]_vars

\* Logout invocations one after another, each returned before the next is
\* called, the permission check granting and every remote call resolving.
NextSeq ==
    \/ /\ started < MaxInv /\ OthersIdle
       /\ \E user \in Users \cup {0}, caller \in Users : Invoke("logout", user, caller)
    \/ \E r \in InFlight, d \in NowSteps : handleLogoutCmd(r, d)
    \/ \E r \in InFlight, res \in LogoutSamples, m \in MessageIds :
           handleLogoutCmd_Receipt(r, res, m)
    \/ \E r \in InFlight, res \in BillingSamples, m \in MessageIds :
           handleLogoutCmd_Preview(r, res, m)

SpecSeq == Init /\ [][NextSeq]_vars

\* ---------------------------------------------- formatBilling on its own
Costs == 0 .. MaxCost

\* The costs of the segments of one response, in list order; -1 is an
\* accounting adjustment.
SegmentCosts == UNION { [1 .. n -> {-1, 0, 1}] : n \in 0 .. MaxSegs }

\* The segment list with these costs; the rule name is the position.
Segments(costs) ==
    [k \in 1 .. Len(costs) |->
        [ruleName |-> k, startTime |-> 5, endTime |-> 9, sameDay |-> TRUE,
         cost |-> costs[k], isCapped |-> FALSE]]

\* session with and without costOverwrite.
SessionInputs ==
    {[createdAt |-> 5]} \cup {[createdAt |-> 5, costOverwrite |-> c] : c \in Costs}

\* BillingResponse values, with and without discount.
BillingInputs ==
    { [ session |-> s,
        billing |-> [endTime |-> 9, totalCost |-> t, segments |-> Segments(cs)],
        wallet  |-> [total |-> [available |-> 1], passes |-> <<>>] ] :
        s \in SessionInputs, t \in Costs, cs \in SegmentCosts }
    \cup
    { [ session  |-> s,
        billing  |-> [endTime |-> 9, totalCost |-> t, segments |-> Segments(cs)],
        discount |-> [originalCost |-> t, finalCost |-> f, appliedLogs |-> <<>>],
        wallet   |-> [total |-> [available |-> 1], passes |-> <<>>] ] :
        s \in SessionInputs, t \in Costs, f \in Costs, cs \in SegmentCosts }

InitBilling ==
    /\ kv = <<>> /\ clock = 0 /\ flight = EmptyBag /\ started = 0 /\ out = NoReply
    /\ bres \in BillingInputs /\ blines = <<>>
    /\ wres = NoInput /\ wlines = <<>>

\* formatBilling(res) is called on the response.
RenderBilling ==
    /\ blines = <<>>
    /\ blines' = formatBilling(bres)
    /\ UNCHANGED <<kv, clock, flight, started, out, bres, wres, wlines>>

NextBilling == RenderBilling

SpecBilling == InitBilling /\ [][NextBilling]_vars

\* ------------------------------------------ the wallet report on its own
\* The expireAt of the available free assets, in list order (NullDate: none).
ExpiryLists == UNION { [1 .. n -> 0 .. MaxExpiry] : n \in 0 .. MaxAssets }

\* The asset list with these expiries; the count is the position.
FreeAssets(exps) == [k \in 1 .. Len(exps) |-> [count |-> k, expireAt |-> exps[k]]]

\* Wallet values, with and without free.details.
WalletInputs ==
    { [ total |-> [available |-> 4, all |-> 6], paid |-> [available |-> 1],
        free |-> [available |-> 3, details |-> [available |-> FreeAssets(exps)]],
        passes |-> <<>>, tickets |-> <<>> ] : exps \in ExpiryLists }
    \cup
    { [ total |-> [available |-> 4, all |-> 4], paid |-> [available |-> 4],
        free |-> [available |-> 0], passes |-> <<>>, tickets |-> <<>> ] }

InitWallet ==
    /\ kv = <<>> /\ clock = 0 /\ flight = EmptyBag /\ started = 0 /\ out = NoReply
    /\ bres = NoInput /\ blines = <<>>
    /\ wres \in WalletInputs /\ wlines = <<>>

\* index.ts:215-257: the report is made of the wallet.
RenderWallet(targetUserId) ==
    /\ wlines = <<>>
    /\ wlines' = WalletReport(wres, targetUserId)
    /\ UNCHANGED <<kv, clock, flight, started, out, bres, blines, wres>>

NextWallet == \E targetUserId \in Users \cup {0} : RenderWallet(targetUserId)

SpecWallet == InitWallet /\ [][NextWallet]_vars

\* ------------------------------------------------------- properties
\* The message of a reply: what follows the quote element, if there is one.
Message(reply) ==
    IF reply # <<>> /\ Head(reply).tag = "quote" THEN Tail(reply) ELSE reply

HasTag(lines, tag) == \E i \in 1 .. Len(lines) : lines[i].tag = tag

\* The number a rendered line of this tag shows.
Rendered(lines, tag) == lines[CHOOSE i \in 1 .. Len(lines) : lines[i].tag = tag].a

\* The logout invocations for u that came to the store, returned or not.
LogoutRecords(u) ==
    {r \in InFlight : r.cmd = "logout" /\ r.target = u /\ r.branch # "none"}

\* The invocation that has just returned was a logout on this branch.
LogoutReturned(branch) == out.cmd = "logout" /\ out.branch = branch

\* C1: when logout invocations for a user run one after another and every
\* remote call resolves, an invocation that finds no pending entry takes the
\* preview branch: it makes one request (billing), replies with the bill and
\* leaves the entry set to its own time; the invocation that follows a
\* preview by less than TTL takes the confirm branch: it makes one request
\* (logout), replies with the receipt and leaves no entry; the invocation
\* that follows a confirmation takes the preview branch again.
C1_SequentialConfirmation ==
    /\ \A u \in Users : \A r \in LogoutRecords(u) :
          /\ r.pendingLogout = 0 => r.branch = "preview"
          /\ \A p \in LogoutRecords(u) :
                p.ver + 1 = r.ver =>
                    /\ p.branch = "preview" /\ r.now - p.now < TTL => r.branch = "confirm"
                    /\ p.branch = "confirm" => r.branch = "preview"
    /\ LogoutReturned("preview") =>
          /\ out.calls = 1
          /\ HasTag(out.reply, "billHeader")
          /\ ~HasTag(out.reply, "logoutOk")
          /\ KvGet(kv, out.target) = out.now
    /\ LogoutReturned("confirm") =>
          /\ out.calls = 1
          /\ Head(Message(out.reply)).tag = "logoutOk"
          /\ out.target \notin DOMAIN kv

\* Three invocations for one user have returned: a preview, its confirmation
\* within the window, and at once after it a preview again.
C1_Witness ==
    /\ LogoutReturned("preview")
    /\ \E p0, p1, p2 \in LogoutRecords(out.target) :
          /\ p0.ver = 0 /\ p0.branch = "preview" /\ p0.pendingLogout = 0
          /\ p1.ver = 1 /\ p1.branch = "confirm" /\ p1.now - p0.now < TTL
          /\ p2.ver = 2 /\ p2.branch = "preview" /\ p2.now = p1.now + 1
          /\ p2.pc = "done" /\ p2.now = out.now

\* C2: a logout invocation that reads a pending entry of age >= TTL (age
\* exactly TTL included) takes the preview branch, never the confirm branch,
\* and when its preview is rendered the entry holds that invocation's time.
C2_TtlExpiry ==
    /\ \A r \in InFlight :
          /\ r.cmd = "logout" /\ r.branch # "none"
          /\ r.pendingLogout # 0 /\ r.now - r.pendingLogout >= TTL
          => r.branch = "preview"
    /\ /\ out.cmd = "logout" /\ out.branch # "none"
       /\ out.pendingLogout # 0 /\ out.now - out.pendingLogout >= TTL
       => /\ out.branch = "preview"
          /\ out.err = NoError => /\ KvGet(kv, out.target) = out.now
                                  /\ out.now # out.pendingLogout

\* A preview has returned whose invocation read an entry of age exactly TTL.
C2_Witness ==
    /\ LogoutReturned("preview")
    /\ out.pendingLogout # 0 /\ out.now - out.pendingLogout = TTL
    /\ out.err = NoError
    /\ KvGet(kv, out.target) = out.now

\* C3: of the logout invocations for one user, the one that reads an entry
\* inside its window takes the confirm branch, no two take the confirm
\* branch on the same pending entry (an entry is known by the time it
\* holds), and the invocation that reads the store next after a confirming
\* one finds no entry and takes the preview branch.
C3_OneConfirmPerEntry ==
    \A u \in Users : \A r1, r2 \in LogoutRecords(u) :
        /\ r1.pendingLogout # 0 /\ r1.now - r1.pendingLogout < TTL
           => r1.branch = "confirm"
        /\ r1.branch = "confirm" /\ r2.branch = "confirm"
           /\ r1.pendingLogout = r2.pendingLogout
           => r1 = r2 /\ CopiesIn(r1, flight) = 1
        /\ r1.branch = "confirm" /\ r2.ver = r1.ver + 1
           => r2.pendingLogout = 0 /\ r2.branch = "preview"

\* Two invocations for one user are suspended at their remote calls at the
\* same time, both having read the store within the window of one entry: the
\* first took it, the second found nothing.
C3_Witness ==
    \E r1, r2 \in InFlight :
        /\ r1.cmd = "logout" /\ r2.cmd = "logout" /\ r1.target = r2.target
        /\ r1.pc = "call" /\ r2.pc = "call"
        /\ r1.branch = "confirm" /\ r2.branch = "preview"
        /\ r2.ver = r1.ver + 1
        /\ r2.now - r1.pendingLogout < TTL

\* The final cost by the stated precedence: costOverwrite whenever it is
\* set, else discount.finalCost whenever there is a discount, else totalCost.
ResolvedCost(res) ==
    IF "costOverwrite" \in DOMAIN res.session THEN res.session.costOverwrite
    ELSE IF "discount" \in DOMAIN res THEN res.discount.finalCost
    ELSE res.billing.totalCost

\* C4: the bill shows as final cost the cost resolved by the precedence
\* costOverwrite > discount.finalCost > totalCost, zero values included, and
\* as balance after deduction wallet.total.available minus that cost.
C4_CostResolution ==
    blines # <<>> =>
        /\ Rendered(blines, "finalCost") = ResolvedCost(bres)
        /\ Rendered(blines, "finalBalance")
               = bres.wallet.total.available - ResolvedCost(bres)

LocalChecks == {"perm", "amount", "alias", "code"}

FixedMessage(local) ==
    CASE local = "perm"   -> MsgPermDenied
      [] local = "amount" -> MsgNeedAmount
      [] local = "alias"  -> MsgNeedAlias
      [] local = "code"   -> MsgNeedCode

\* C6: a step in which an invocation returns because a local check failed
\* (permission denied for a named user; amount, alias or code missing)
\* leaves the store as it is, that invocation has issued no remote request,
\* and the message of its reply is the fixed message of the check.
C6_LocalRejection ==
    [][ out'.local \in LocalChecks =>
            /\ kv' = kv
            /\ out'.calls = 0
            /\ out'.kvOps = 0
            /\ Message(out'.reply) = <<Line(FixedMessage(out'.local), 0, 0)>> ]_vars

\* An add, del or overwrite without amount has returned its prompt while the
\* store holds an entry.
C6_Witness ==
    /\ out.local = "amount"
    /\ out.calls = 0
    /\ DOMAIN kv # {}

\* The error carries a message in its response payload, and not an empty one.
CarriesMessage(e) ==
    /\ "response" \in DOMAIN e
    /\ "data" \in DOMAIN e.response
    /\ "message" \in DOMAIN e.response.data
    /\ e.response.data.message # ""

\* C7: every invocation that returns hands over one reply; when the handler
\* threw (a remote request rejected), the message of the reply is the message
\* field of the error's response payload if there is a non-empty one, and
\* the generic failure message otherwise.
C7_FailureMapping ==
    /\ out.cmd # "none" => Message(out.reply) # <<>>
    /\ out.err # NoError =>
          Message(out.reply)
              = << Line(IF CarriesMessage(out.err) THEN out.err.response.data.message
                                                   ELSE MsgGeneric, 0, 0) >>

\* A remote request has rejected with a payload message and the reply, a
\* quote before it, carries that message.
C7_Witness ==
    /\ out.err # NoError /\ CarriesMessage(out.err)
    /\ out.calls > 0
    /\ Head(out.reply).tag = "quote"
    /\ Message(out.reply) = <<Line(out.err.response.data.message, 0, 0)>>

IsSegmentLine(l) == l.tag \in {"segRule", "segTime", "segDateTime", "segCost"}
IsSegRule(l) == l.tag = "segRule"
IsSegCost(l) == l.tag = "segCost"
NotNegative(seg) == seg.cost >= 0

\* C8: the segment entries of the bill are the segments of cost >= 0, in
\* their order in the list, three lines each, and nothing else: a segment of
\* cost < 0 makes no line.
C8_SegmentFiltering ==
    blines # <<>> =>
        LET kept  == SelectSeq(bres.billing.segments, NotNegative)
            rules == SelectSeq(blines, IsSegRule)
            costs == SelectSeq(blines, IsSegCost)
        IN  /\ Len(SelectSeq(blines, IsSegmentLine)) = 3 * Len(kept)
            /\ [k \in 1 .. Len(rules) |-> rules[k].a]
                   = [k \in 1 .. Len(kept) |-> kept[k].ruleName]
            /\ [k \in 1 .. Len(costs) |-> costs[k].a]
                   = [k \in 1 .. Len(kept) |-> kept[k].cost]

\* A bill has been rendered of a list holding an adjustment before a free
\* segment.
C8_Witness ==
    /\ blines # <<>>
    /\ Len(bres.billing.segments) = 2
    /\ bres.billing.segments[1].cost < 0
    /\ bres.billing.segments[2].cost = 0
    /\ Len(SelectSeq(blines, IsSegRule)) = 1

IsExpiringSoon(l) == l.tag = "expiringSoon"

\* The available free assets of a wallet.
AvailableFree(res) ==
    IF "details" \in DOMAIN res.free THEN res.free.details.available ELSE <<>>

\* C9: the wallet report has one "expiring soon" note if some available free
\* asset has a non-null expireAt and none otherwise; the note shows the asset
\* of the least expiry among those, the first of them in the list when
\* several share it.
C9_ExpirySelection ==
    wlines # <<>> =>
        LET avail    == AvailableFree(wres)
            expiring == {i \in 1 .. Len(avail) : avail[i].expireAt # NullDate}
            notes    == SelectSeq(wlines, IsExpiringSoon)
        IN  IF expiring = {} THEN notes = <<>>
            ELSE /\ Len(notes) = 1
                 /\ LET first == CHOOSE i \in expiring : \A j \in expiring :
                                     \/ avail[i].expireAt < avail[j].expireAt
                                     \/ avail[i].expireAt = avail[j].expireAt /\ i <= j
                    IN  /\ notes[1].a = avail[first].count
                        /\ notes[1].b = avail[first].expireAt

\* A report has been made of a wallet whose least expiry is shared by the
\* second and the third asset, behind a later one and none at all.
C9_Witness ==
    /\ wlines # <<>>
    /\ LET avail == AvailableFree(wres)
       IN  /\ Len(avail) = 3
           /\ avail[1].expireAt > avail[2].expireAt
           /\ avail[2].expireAt = avail[3].expireAt
           /\ avail[2].expireAt # NullDate
           /\ SelectSeq(wlines, IsExpiringSoon)[1].a = avail[2].count

ReturnedRecords ==
    {r \in LogoutRecords(out.target) : r.pc = "done" /\ r.now = out.now}

\* C11: the kv.get of a logout invocation and its own kv.set or kv.delete
\* run with no store operation of another invocation on the same key in
\* between: when a preview has set the entry, the operations on the key are
\* those before its read and its own; in particular no invocation that read
\* the store later than it has taken the confirm branch by then.
C11_AtomicCheckAndSet ==
    LogoutReturned("preview") /\ out.err = NoError =>
        /\ \A r \in ReturnedRecords : StoreOps(out.target) = r.ver + 1
        /\ ~ \E c \in LogoutRecords(out.target) :
                 c.branch = "confirm" /\ c.now > out.now

\* The previews for u that were rendered and have set the entry.
PreviewsRendered(u) ==
    {p \in LogoutRecords(u) : p.branch = "preview" /\ p.pc = "done" /\ p.kvOps = 1}

\* The previews for u whose billing request rejected.
PreviewsFailed(u) ==
    {p \in LogoutRecords(u) : p.branch = "preview" /\ p.pc = "done" /\ p.kvOps = 0}

\* C12: for every user the remote logouts issued are at most as many as the
\* previews rendered; every invocation that took the confirm branch read an
\* entry that a rendered preview had written with its own time, less than
\* TTL before the confirming invocation's time; and no invocation confirms
\* on the time of a preview whose billing request rejected.
C12_FinalizationBacked ==
    \A u \in Users :
        /\ LogoutCalls(u) <= PreviewsDone(u)
        /\ \A c \in LogoutRecords(u) :
              c.branch = "confirm" =>
                  /\ \E p \in PreviewsRendered(u) :
                        /\ p.now = c.pendingLogout
                        /\ c.now - p.now < TTL
                        /\ c.now > p.now
                  /\ \A f \in PreviewsFailed(u) : f.now # c.pendingLogout

\* A preview's billing request has rejected, a later preview has been
\* rendered, and an invocation has confirmed on the entry of the latter.
C12_Witness ==
    \E u \in Users : \E f \in PreviewsFailed(u), p \in PreviewsRendered(u) :
        \E c \in LogoutRecords(u) :
            /\ c.branch = "confirm"
            /\ f.now < p.now
            /\ c.pendingLogout = p.now
            /\ c.now - f.now < TTL

====
